---- MODULE Spec2Model ----
(***************************************************************************)
(* Model of src/scraper.js: the session restore / credential login of      *)
(* loginWithSavedCookies, the per-target export loop of proccessProfiles,  *)
(* the download detection of waitForDownload, the claim (rename) of        *)
(* renameDownloadedPdf and the driver lifetime in main.                    *)
(*                                                                         *)
(* The program is one async function chain; its position is pc.  The       *)
(* browser's download manager is the only other actor: it writes a         *)
(* requested export into the download folder at a time of its own          *)
(* choosing (DownloadCompletes), between any two awaits of the program.    *)
(* Every browser-driver and filesystem call that can reject is given both  *)
(* outcomes.                                                               *)
(***************************************************************************)
EXTENDS Integers, Sequences, FiniteSets, TLC

\* ---------------------------------------------------------------- bounds
\* Longest target list read from profiles.csv.
MaxTargets == 2
\* Number of consecutive runs of main() over the same directory.
MaxRuns == 2

\* ------------------------------------------------------------- URL strings
\* A string is a sequence of one-character strings.  "h" stands for the
\* scheme-and-host prefix of a URL.
UrlA == <<"h", "/", "i", "n", "/", "a">>
UrlB == <<"h", "/", "i", "n", "/", "b", "/">>
UrlBad == <<"h", "/", "x", "/", "a">>
UrlSet == {UrlA, UrlB, UrlBad}

\* The value null of extractProfileId, and a returned string.
Null == [isNull |-> TRUE, str |-> <<>>]
Str(s) == [isNull |-> FALSE, str |-> s]

\* Mutant of IsIdChar: the class is [^\/], the query string is not cut.
IsIdChar_SlashOnly(c) == c # "/"

\* [^\/\?] of the regular expression at line 156.
IsIdChar(c) == c # "/" /\ c # "?"

\* The greedy group ([^\/\?]+) matched from position p of s.
RECURSIVE TakeId(_, _)
TakeId(s, p) ==
  IF p > Len(s) \/ ~IsIdChar(s[p]) THEN <<>>
  ELSE <<s[p]>> \o TakeId(s, p + 1)

\* Whether the literal "/in/" stands at position p of s.
HasInAt(s, p) ==
  /\ p + 3 <= Len(s)
  /\ s[p] = "/" /\ s[p + 1] = "i" /\ s[p + 2] = "n" /\ s[p + 3] = "/"

\* url.match(/\/in\/([^\/\?]+)/): the leftmost position where the whole
\* pattern matches, searched from p; the result is the group or <<>>.
RECURSIVE MatchFrom(_, _)
MatchFrom(s, p) ==
  IF p > Len(s) THEN <<>>
  ELSE IF HasInAt(s, p) /\ TakeId(s, p + 4) # <<>> THEN TakeId(s, p + 4)
  ELSE MatchFrom(s, p + 1)

\* match[1].replace(/\/$/, ''): drops one trailing slash.
StripTrailingSlash(s) ==
  IF Len(s) > 0 /\ s[Len(s)] = "/" THEN SubSeq(s, 1, Len(s) - 1) ELSE s

extractProfileId(url) ==
  LET m == MatchFrom(url, 1)
  IN IF m # <<>> THEN Str(StripTrailingSlash(m)) ELSE Null

\* ------------------------------------------------------------ file names
\* A file name of the download folder: stem, suffix, extension.  For the
\* stem "Profile" (the name the browser gives an export) sfx is the
\* browser's duplicate counter, "Profile (n).pdf"; for a profile id it is
\* the timestamp of `${profileId}_${timestamp}.pdf`, 0 for
\* `${profileId}.pdf`.
ProfileStem == <<"Profile">>
Name(stem, sfx) == [stem |-> stem, sfx |-> sfx, ext |-> "pdf"]

\* f.endsWith('.pdf') && !f.endsWith('.crdownload')
Qualifies(name) == name.ext = "pdf" /\ ~(name.ext = "crdownload")

\* `${profileId}.pdf`
newFileName(id) == Name(id, 0)
\* `${profileId}_${timestamp}.pdf`
timestampedName(id, ts) == Name(id, ts)

\* ------------------------------------------------------------------ state
VARIABLES
  hasEmail,      \* process.env.LINKEDIN_EMAIL is set (line 7)
  hasPassword,   \* process.env.LINKEDIN_PASSWORD is set (line 8)
  cookiesFile,   \* COOKIES_FILE: "absent", "corrupt" or "saved"
  profilesFile,  \* profiles.csv: [ok |-> readable, urls |-> its entries]
  folder,        \* DOWNLOAD_FOLDER: a set of [name, mtime, src]
  pending,       \* exports requested from the browser and not yet written
  run,           \* which run of main() this is
  pc,            \* position of main() and of the functions it awaits
  driver,        \* "none", "open" or "quit"
  URLs,          \* proccessProfiles: const URLs
  i,             \* proccessProfiles: loop index, counted from 1
  profileId,     \* proccessProfiles: const profileId of the iteration
  tier,          \* which click requested the export: "primary" or "alt"
  primaryFail,   \* what the catch of line 314 caught for this target
  downloadedFile, \* proccessProfiles: const downloadedFile
  \* What the run has done so far (history of the current run):
  formCheck,     \* how the wait at lines 122-125 ended
  formPresent,   \* whether the login form was on the page at that wait
  loginResult,   \* what loginToLinkedIn returned: "none", "true", "false"
  isLogged,      \* main: const isLogged; "none" before the call returns
  authCalls,     \* calls of loginWithSavedCookies
  urlMatched,    \* the wait of lines 63-67 resolved
  cookieWrites,  \* calls of fs.writeFile(COOKIES_FILE, ...)
  reported,      \* number of entry outcomes printed so far in this run
  listRead,      \* getProfileURLs was called
  navigated,     \* indices whose URL was given to driver.get, in order
  quitCalls,     \* calls of driver.quit()
  claimLog       \* the renames renameDownloadedPdf performed (all runs)

vars == <<hasEmail, hasPassword, cookiesFile, profilesFile, folder, pending,
          run, pc, driver, URLs, i, profileId, tier, formCheck,
          formPresent, loginResult, isLogged, authCalls, listRead,
          navigated, quitCalls, claimLog, primaryFail, downloadedFile,
          urlMatched, cookieWrites, reported>>

\* Variables of the process environment and of the files main() only reads.
inputs == <<hasEmail, hasPassword, profilesFile>>
\* The download folder and the browser's pending exports.
disk == <<folder, pending, claimLog>>
\* The locals of proccessProfiles.
locals == <<URLs, i, profileId, tier, primaryFail, downloadedFile>>
\* The history of the login.
authHist == <<formCheck, formPresent, loginResult, isLogged, authCalls,
              urlMatched, cookieWrites>>

\* Sequences over S of length at most n.
SeqsUpTo(S, n) == UNION {[1..k -> S] : k \in 0..n}

\* The export requested for target index k in run r.
Export(r, k) == [run |-> r, tgt |-> k]

Init ==
  /\ hasEmail \in BOOLEAN
  /\ hasPassword \in BOOLEAN
  /\ cookiesFile \in {"absent", "corrupt", "saved"}
  /\ profilesFile \in
       {[ok |-> FALSE, urls |-> <<>>]}
         \cup {[ok |-> TRUE, urls |-> u] : u \in SeqsUpTo(UrlSet, MaxTargets)}
  /\ folder = {}
  /\ pending = {}
  /\ run = 1
  /\ pc = "start"
  /\ driver = "none"
  /\ URLs = <<>>
  /\ i = 0
  /\ profileId = Null
  /\ tier = "none"
  /\ primaryFail = "none"
  /\ downloadedFile = Null
  /\ urlMatched = FALSE
  /\ cookieWrites = 0
  /\ reported = 0
  /\ formCheck = "none"
  /\ formPresent = FALSE
  /\ loginResult = "none"
  /\ isLogged = "none"
  /\ authCalls = 0
  /\ listRead = FALSE
  /\ navigated = <<>>
  /\ quitCalls = 0
  /\ claimLog = {}

\* ---------------------------------------------------------- main, login
\* main, lines 354-366: mkdir, then getDriver, which returns null when
\* the browser cannot be built.
MainStart ==
  /\ pc = "start"
  /\ \E built \in BOOLEAN :
       IF built
       THEN /\ driver' = "open"
            /\ pc' = "loadCookies"
       ELSE /\ driver' = "none"
            /\ pc' = "done"
  /\ UNCHANGED <<inputs, cookiesFile, disk, run, locals, authHist, listRead,
                 navigated, quitCalls, reported>>

\* loginWithSavedCookies line 116 with loadCookies, lines 90-112: readFile
\* and JSON.parse throw on an absent or unparsable file, driver.get and
\* refresh may reject; loadCookies rethrows (line 110).  A cookie that
\* cannot be added is skipped (lines 98-102).
loadCookiesThrows(file, driverOk) == file # "saved" \/ ~driverOk

\* loginWithSavedCookies, lines 114-116 and 141-144: an exception of
\* loadCookies reaches the outer catch, which logs it; the function then
\* ends without a return statement, so its value is undefined.
LoadCookies ==
  /\ pc = "loadCookies"
  /\ authCalls' = authCalls + 1
  /\ \E driverOk \in BOOLEAN :
       IF loadCookiesThrows(cookiesFile, driverOk)
       THEN /\ isLogged' = "undefined"
            /\ pc' = "mainCheck"
       ELSE /\ pc' = "validate"
            /\ UNCHANGED isLogged
  /\ UNCHANGED <<inputs, cookiesFile, disk, run, driver, locals, formCheck,
                 formPresent, loginResult, listRead, navigated, quitCalls,
                 urlMatched, cookieWrites, reported>>

\* Whether loginWithSavedCookies calls loginToLinkedIn after the wait for
\* By.id('username'), lines 120-130: emailInput is set only when the wait
\* resolved; line 126 catches whatever the wait rejected with.
emailInputSet(outcome) == outcome = "located"

\* loginWithSavedCookies, lines 117-139: driver.get of the feed, then the
\* bounded wait for the login form.  The wait resolves with the element
\* (the form is present), rejects with a timeout (no form appeared), or
\* rejects with another driver error (the form may or may not be present).
ValidateSession ==
  /\ pc = "validate"
  /\ \/ /\ isLogged' = "undefined"        \* driver.get rejected: line 141
        /\ pc' = "mainCheck"
        /\ UNCHANGED <<formCheck, formPresent>>
     \/ \E outcome \in {"located", "timeout", "error"}, present \in BOOLEAN :
          /\ outcome = "located" => present
          /\ outcome = "timeout" => ~present
          /\ formCheck' = outcome
          /\ formPresent' = present
          /\ IF emailInputSet(outcome)
             THEN /\ pc' = "login"
                  /\ UNCHANGED isLogged
             ELSE /\ isLogged' = "true"   \* line 139
                  /\ pc' = "mainCheck"
  /\ UNCHANGED <<inputs, cookiesFile, disk, run, driver, locals, loginResult,
                 authCalls, listRead, navigated, quitCalls, urlMatched,
                 cookieWrites, reported>>

\* loginToLinkedIn, lines 42-88.  sendKeys rejects a value that is not a
\* string, so an undefined credential throws at line 52 or 55; every
\* driver call and the writeFile of line 72 may reject; all of it lands in
\* the catch of line 84 and the function returns false.
loginToLinkedIn(stepsOk, writeOk) ==
  hasEmail /\ hasPassword /\ stepsOk /\ writeOk

\* Lines 45-67: the wait for the post-login URL resolved; every await
\* before it resolved too (stepsOk), which needs both credentials.
urlWaitResolved(stepsOk) == hasEmail /\ hasPassword /\ stepsOk

\* Mutant of writeReached: the cookies are saved before the wait for the
\* post-login URL.
writeReached_BeforeUrlWait(matched, getOk) == getOk

\* Lines 63-72: fs.writeFile is called once the wait for the URL resolved
\* and getCookies resolved (getOk).
writeReached(matched, getOk) == matched /\ getOk

\* loginWithSavedCookies, lines 131-139, with the call of loginToLinkedIn.
\* The cookie file is written (line 72) once the post-login URL matched; a
\* writeFile that rejects may have truncated the file.
LoginToLinkedIn ==
  /\ pc = "login"
  /\ \E stepsOk \in BOOLEAN, getOk \in BOOLEAN, writeOk \in BOOLEAN :
       /\ urlMatched' = urlWaitResolved(stepsOk)
       /\ cookieWrites' =
            IF writeReached(urlWaitResolved(stepsOk), getOk)
            THEN cookieWrites + 1 ELSE cookieWrites
       /\ cookiesFile' \in
            IF writeReached(urlWaitResolved(stepsOk), getOk)
            THEN (IF writeOk THEN {"saved"} ELSE {cookiesFile, "corrupt"})
            ELSE {cookiesFile}
       /\ IF loginToLinkedIn(stepsOk /\ getOk, writeOk)
          THEN /\ loginResult' = "true"
               /\ isLogged' = "true"
          ELSE /\ loginResult' = "false"
               /\ isLogged' = "false"
  /\ pc' = "mainCheck"
  /\ UNCHANGED <<inputs, disk, run, driver, locals, formCheck, formPresent,
                 authCalls, listRead, navigated, quitCalls, reported>>

\* Mutant of notLogged: main tests isLogged === false, so that undefined
\* counts as logged in.
notLogged_OnlyFalse(v) == v = "false"

\* main, line 369: !isLogged is true of false and of undefined.
notLogged(v) == v # "true"

\* Mutant of MainLoginFailed: main returns on a failed login without
\* driver.quit().
MainLoginFailed_NoQuit ==
  /\ pc = "mainCheck"
  /\ notLogged(isLogged)
  /\ pc' = "done"
  /\ UNCHANGED <<inputs, cookiesFile, disk, run, driver, locals, authHist,
                 listRead, navigated, quitCalls, reported>>

\* main, lines 369-374: !isLogged, so quit and return.  Quitting the
\* browser cancels the exports it had not written.
MainLoginFailed ==
  /\ pc = "mainCheck"
  /\ notLogged(isLogged)
  /\ driver' = "quit"
  /\ quitCalls' = quitCalls + 1
  /\ pending' = {}
  /\ pc' = "done"
  /\ UNCHANGED <<inputs, cookiesFile, folder, claimLog, run, locals,
                 authHist, listRead, navigated, reported>>

\* getProfileURLs, lines 341-351: the entries of the file, [] when it
\* cannot be read.  split(/[\n,]+/), trim and filter leave no blank entry.
getProfileURLs == IF profilesFile.ok THEN profilesFile.urls ELSE <<>>

\* main, lines 376-377, and proccessProfiles line 253.
MainAuthenticated ==
  /\ pc = "mainCheck"
  /\ ~notLogged(isLogged)
  /\ URLs' = getProfileURLs
  /\ listRead' = TRUE
  /\ i' = 1
  /\ pc' = "loop"
  /\ UNCHANGED <<inputs, cookiesFile, disk, run, driver, profileId, tier,
                 primaryFail, downloadedFile, authHist, navigated, quitCalls,
                 reported>>

\* ------------------------------------------------------ download folder
Names(F) == {f.name : f \in F}

\* files.filter(...) of lines 176-178 and 207.
PdfFiles(F) == {f \in F : Qualifies(f.name)}

\* Mutant of MostRecent: the sort is ascending, the oldest file is taken.
MostRecent_Oldest(F) ==
  CHOOSE f \in PdfFiles(F) : \A g \in PdfFiles(F) : f.mtime <= g.mtime

\* pdfStats.sort((a, b) => b.time - a.time)[0], lines 188-189 and 223-224.
MostRecent(F) ==
  CHOOSE f \in PdfFiles(F) : \A g \in PdfFiles(F) : g.mtime <= f.mtime

\* fs.rename(from, to): the file takes the new name; a file that had that
\* name is replaced.
fsRename(F, f, to) ==
  {g \in F : g.name # to /\ g # f} \cup {[f EXCEPT !.name = to]}

\* The name the browser writes an export under: Profile.pdf, or
\* Profile (n).pdf with the least n not taken.
BrowserName(F) ==
  Name(ProfileStem,
       CHOOSE n \in 0..Cardinality(F) :
         /\ Name(ProfileStem, n) \notin Names(F)
         /\ \A m \in 0..(n - 1) : Name(ProfileStem, m) \in Names(F))

\* The modification time of a file written now: later than that of every
\* file of the folder.
NewMtime(F) ==
  1 + (CHOOSE m \in {0} \cup {f.mtime : f \in F} :
         \A f \in F : f.mtime <= m)

\* The browser finishes writing one requested export into the folder.  It
\* does so whenever it likes while it runs, also while the program sleeps
\* or has moved to another target.
DownloadCompletes ==
  /\ driver = "open"
  /\ \E e \in pending :
       /\ folder' = folder \cup
            {[name |-> BrowserName(folder), mtime |-> NewMtime(folder),
              src |-> e]}
       /\ pending' = pending \ {e}
  /\ UNCHANGED <<inputs, cookiesFile, claimLog, run, pc, driver, locals,
                 authHist, listRead, navigated, quitCalls, reported>>

\* ------------------------------------------------------ proccessProfiles
\* The console lines that tell how an entry ended are counted as they are
\* printed: line 261 "skipped-unresolvable", line 279
\* "skipped-no-action-element", lines 331 and 336 "failed-trigger", line
\* 311 "failed-download-timeout", lines 237 and 242 "exported", lines 210
\* and 247 "rename-failed".
Report(msgs) == reported' = reported + Len(msgs)

\* The for loop's next iteration after `continue` or after the body ended.
NextTarget ==
  /\ i' = i + 1
  /\ profileId' = Null
  /\ tier' = "none"
  /\ primaryFail' = "none"
  /\ downloadedFile' = Null
  /\ pc' = "loop"

\* Mutant of CatchAndContinue: the exception of one target ends the loop.
CatchAndAbort ==
  /\ i' = Len(URLs) + 1
  /\ profileId' = Null
  /\ tier' = "none"
  /\ primaryFail' = "none"
  /\ downloadedFile' = Null
  /\ pc' = "loop"

\* The catch of lines 335-337 (and of 330-332): the exception is logged
\* and the for loop goes on with the next entry.
CatchAndContinue == NextTarget

\* Lines 255-263 for an entry whose identifier cannot be extracted.
SkipEntry ==
  /\ pc = "loop"
  /\ i <= Len(URLs)
  /\ LET id == extractProfileId(URLs[i])
     IN id.isNull \/ id.str = <<>>
  /\ Report(<<"skipped-unresolvable">>)
  /\ NextTarget
  /\ UNCHANGED <<inputs, cookiesFile, disk, run, driver, URLs, authHist,
                 listRead, navigated, quitCalls>>

\* Lines 255-270 for a resolvable entry: driver.get(url), which may reject.
Navigate ==
  /\ pc = "loop"
  /\ i <= Len(URLs)
  /\ LET id == extractProfileId(URLs[i])
     IN /\ ~(id.isNull \/ id.str = <<>>)
        /\ navigated' = Append(navigated, i)
        /\ \E ok \in BOOLEAN :
             IF ok
             THEN /\ profileId' = id
                  /\ pc' = "overflow"
                  /\ UNCHANGED <<i, tier, primaryFail, downloadedFile,
                                 reported>>
             ELSE /\ Report(<<"failed-trigger">>)
                  /\ CatchAndContinue
  /\ UNCHANGED <<inputs, cookiesFile, disk, run, driver, URLs, authHist,
                 listRead, quitCalls>>

\* Mutant of overflowNext: a page without a second overflow button goes on
\* to the wait for a download.
overflowNext_WaitAnyway(outcome) ==
  IF outcome = "second" THEN "clickMore" ELSE "wait"

\* Lines 278-286: where the body goes after findElements resolved: with
\* fewer than two overflow buttons the target is left ("loop"), otherwise
\* the second one is clicked.
overflowNext(outcome) ==
  IF outcome = "second" THEN "clickMore" ELSE "loop"

\* Lines 273-281: findElements may reject; fewer than two overflow buttons
\* skip the target.
FindOverflow ==
  /\ pc = "overflow"
  /\ \E outcome \in {"throws", "none", "second"} :
       CASE outcome = "throws" -> /\ Report(<<"failed-trigger">>)
                                  /\ CatchAndContinue
         [] overflowNext(outcome) = "loop" /\ outcome # "throws" ->
                     /\ Report(<<"skipped-no-action-element">>)
                     /\ NextTarget
         [] OTHER -> /\ pc' = overflowNext(outcome)
                     /\ UNCHANGED <<i, profileId, tier, primaryFail,
                                    downloadedFile, reported>>
  /\ UNCHANGED <<inputs, cookiesFile, disk, run, driver, URLs, authHist,
                 listRead, navigated, quitCalls>>

\* Mutant of primaryNext: the fallback is tried after the primary click
\* went through as well.
primaryNext_AlwaysFallback(outcome) == "fallback"

\* Lines 284-314: where the body goes after the primary path: the catch
\* of line 314 receives a rejection of any of its awaits, the click on
\* the overflow button (line 286), findElement of the menu item (lines
\* 290-292) and the script-level click (line 295).
primaryNext(outcome) ==
  IF outcome = "clicked" THEN "wait" ELSE "fallback"

\* Lines 285-295: click on the overflow button, findElement of the menu
\* item and the script-level click.  Any rejection goes to the catch of
\* line 314; a click that went through requests the export.
ClickPrimary ==
  /\ pc = "clickMore"
  /\ \E outcome \in {"menuRejected", "itemNotFound", "clickRejected",
                     "clicked"} :
       /\ pc' = primaryNext(outcome)
       /\ IF outcome = "clicked"
          THEN /\ pending' = pending \cup {Export(run, i)}
               /\ tier' = "primary"
               /\ UNCHANGED primaryFail
          ELSE /\ primaryFail' = outcome
               /\ UNCHANGED <<pending, tier>>
  /\ UNCHANGED <<inputs, cookiesFile, folder, claimLog, run, driver,
                 URLs, i, profileId, downloadedFile, authHist, listRead,
                 navigated, quitCalls, reported>>

\* Lines 315-323 and 330-332: the caught exception is logged (its last
\* use), then the looser locator and its script-level click; a rejection
\* is logged and the target is left.
ClickFallback ==
  /\ pc = "fallback"
  /\ \E ok \in BOOLEAN :
       IF ok
       THEN /\ pending' = pending \cup {Export(run, i)}
            /\ tier' = "alt"
            /\ primaryFail' = "none"
            /\ pc' = "wait"
            /\ UNCHANGED <<i, profileId, downloadedFile, reported>>
       ELSE /\ Report(<<"failed-trigger">>)
            /\ CatchAndContinue
            /\ UNCHANGED pending
  /\ UNCHANGED <<inputs, cookiesFile, folder, claimLog, run, driver,
                 URLs, authHist, listRead, navigated, quitCalls>>

\* waitForDownload, lines 168-199: the value returned for folder content
\* F, when readdir and stat work (fsOk) or keep rejecting (line 191):
\* the name of the most recent qualifying file, or null.
waitForDownload(F, fsOk) ==
  IF fsOk /\ PdfFiles(F) # {} THEN Str(MostRecent(F).name) ELSE Null

\* Mutant of afterWait: a wait that returned null is taken for a failure
\* of the primary path and goes to the fallback locator.
afterWait_FallbackOnNull(file) == IF file.isNull THEN "fallback" ELSE "settle"

\* Mutant of afterWait: a wait that returned null goes on to the rename.
afterWait_RenameAnyway(file) == "settle"

\* Lines 302-312 and 326-329: `if (downloadedFile)`: a file name goes on
\* to the settle delay and the rename, null leaves the target.
afterWait(file) == IF file.isNull THEN "loop" ELSE "settle"

\* Lines 310-312 against lines 326-329: what is printed when the wait
\* returned null.  The primary path has an else branch that logs the
\* timeout; the fallback path has no else branch.
timeoutReport(t) ==
  IF t = "primary" THEN <<"failed-download-timeout">> ELSE <<>>

\* Lines 300-312 and 325-329: a poll that finds a qualifying file ends the
\* wait; with none at the last poll the wait returns null after the
\* timeout and the target is left.
WaitForDownload ==
  /\ pc = "wait"
  /\ \E fsOk \in BOOLEAN :
       LET file == waitForDownload(folder, fsOk)
       IN IF afterWait(file) = "loop"
          THEN /\ Report(timeoutReport(tier))
               /\ NextTarget
          ELSE /\ downloadedFile' = file
               /\ pc' = afterWait(file)
               /\ UNCHANGED <<i, profileId, tier, primaryFail, reported>>
  /\ UNCHANGED <<inputs, cookiesFile, disk, run, driver, URLs, authHist,
                 listRead, navigated, quitCalls>>

\* Lines 306 and 327: sleep(2000) before the rename.
SettleDelay ==
  /\ pc = "settle"
  /\ pc' = "rename"
  /\ UNCHANGED <<inputs, cookiesFile, disk, run, driver, locals, authHist,
                 listRead, navigated, quitCalls, reported>>

\* Date.now() of line 234 when target k of run r is claimed: a rename
\* happens seconds after the one before it, so each reads a later clock.
Stamp(r, k) == r * (MaxTargets + 1) + k

\* renameDownloadedPdf, lines 230-244: the name the most recent file is
\* renamed to, or Null when no rename succeeded.  exists: a file named
\* `${profileId}.pdf` is in the folder; accessOk: fs.access resolved;
\* tsOk: the rename of line 236 resolved; plainOk: the rename of line 241
\* resolved.  The catch of line 239 receives a rejection of fs.access and
\* a rejection of the rename of line 236 alike.
renameTarget(id, ts, accessOk, tsOk, plainOk) ==
  IF accessOk /\ tsOk THEN Str(timestampedName(id, ts))
  ELSE IF plainOk THEN Str(newFileName(id))
  ELSE Null

\* Lines 232-242: the number of fs.rename calls one invocation issues.
\* After fs.access resolved, a rejection of the rename of line 236 is
\* caught at line 239 and the rename of line 241 is issued as well.
renameCalls(accessOk, tsOk) ==
  IF accessOk /\ ~tsOk THEN 2 ELSE 1

\* Lines 306-309 and 327-328: after the settle delay, renameDownloadedPdf
\* (lines 202-250) renames the most recent qualifying file of the folder.
\* A readdir or stat that rejects, or an empty candidate list, returns
\* false with nothing renamed.  fs.access resolves only if the file
\* exists.
RenameDownloadedPdf ==
  /\ pc = "rename"
  /\ \E readOk \in BOOLEAN, accessErr \in BOOLEAN,
        tsOk \in BOOLEAN, plainOk \in BOOLEAN :
       IF ~readOk \/ PdfFiles(folder) = {}
       THEN /\ Report(<<"rename-failed">>)
            /\ UNCHANGED <<folder, claimLog>>
       ELSE LET mostRecentPdf == MostRecent(folder)
                exists == newFileName(profileId.str) \in Names(folder)
                accessOk == exists /\ ~accessErr
                to == renameTarget(profileId.str, Stamp(run, i), accessOk,
                                   tsOk, plainOk)
            IN IF to.isNull
               THEN /\ Report(<<"rename-failed">>)
                    /\ UNCHANGED <<folder, claimLog>>
               ELSE /\ Report(<<"exported">>)
                    /\ folder' = fsRename(folder, mostRecentPdf, to.str)
                    /\ claimLog' = claimLog \cup
                         {[by |-> Export(run, i),
                           src |-> mostRecentPdf.src,
                           from |-> mostRecentPdf.name,
                           to |-> to.str,
                           existed |-> exists,
                           attempts |-> renameCalls(accessOk, tsOk),
                           lost |-> {g.src : g \in
                                      {h \in folder :
                                         /\ h.name = to.str
                                         /\ h # mostRecentPdf}}]}
  /\ NextTarget
  /\ UNCHANGED <<inputs, cookiesFile, pending, run, driver, URLs, authHist,
                 listRead, navigated, quitCalls>>

\* main, lines 379-383, once the for loop of proccessProfiles has ended:
\* driver.quit().  Quitting the browser cancels the exports it had not
\* written.
MainFinish ==
  /\ pc = "loop"
  /\ i > Len(URLs)
  /\ driver' = "quit"
  /\ quitCalls' = quitCalls + 1
  /\ pending' = {}
  /\ pc' = "done"
  /\ UNCHANGED <<inputs, cookiesFile, folder, claimLog, run, locals,
                 authHist, listRead, navigated, reported>>

\* The program is started again (`node scraper.js`) over the same
\* directory: the files stay, everything in memory starts afresh.
NextRun ==
  /\ pc = "done"
  /\ run < MaxRuns
  /\ run' = run + 1
  /\ pc' = "start"
  /\ driver' = "none"
  /\ URLs' = <<>>
  /\ i' = 0
  /\ profileId' = Null
  /\ tier' = "none"
  /\ formCheck' = "none"
  /\ formPresent' = FALSE
  /\ loginResult' = "none"
  /\ isLogged' = "none"
  /\ authCalls' = 0
  /\ listRead' = FALSE
  /\ navigated' = <<>>
  /\ quitCalls' = 0
  /\ primaryFail' = "none"
  /\ downloadedFile' = Null
  /\ urlMatched' = FALSE
  /\ cookieWrites' = 0
  /\ reported' = 0
  /\ UNCHANGED <<inputs, cookiesFile, disk>>

\* The steps of the program itself.
Program ==
  \/ MainStart
  \/ LoadCookies
  \/ ValidateSession
  \/ LoginToLinkedIn
  \/ MainLoginFailed
  \/ MainAuthenticated
  \/ SkipEntry
  \/ Navigate
  \/ FindOverflow
  \/ ClickPrimary
  \/ ClickFallback
  \/ WaitForDownload
  \/ SettleDelay
  \/ RenameDownloadedPdf
  \/ MainFinish

\* One run of main(), with the browser's downloads.
Next == Program \/ DownloadCompletes

Spec == Init /\ [][Next]_vars

\* Every await of main() is bounded (a driver call resolves or rejects, a
\* wait times out, a sleep ends), so the program always takes its next
\* step.  Nothing is assumed of the browser's downloads.
FairSpec == Spec /\ WF_vars(Program)

\* Consecutive runs of main() over the same directory.
NextOrRerun == Next \/ NextRun

RerunSpec == Init /\ [][NextOrRerun]_vars

\* ------------------------------------------ any content of the folder
\* The modification times of the files found in the folder at the start.
MaxMtime == 3

\* The export of some earlier program start, or a file put there by hand.
Prior == Export(0, 0)

\* Names the folder may hold at the start: Profile.pdf, a download still
\* being written (Profile.pdf.crdownload), a.pdf, and a file that is no
\* PDF (a.txt).
StartNames ==
  { Name(ProfileStem, 0),
    [stem |-> ProfileStem, sfx |-> 0, ext |-> "crdownload"],
    Name(<<"a">>, 0),
    [stem |-> <<"a">>, sfx |-> 0, ext |-> "txt"] }

\* Every content of DOWNLOAD_FOLDER at the start of main() (line 355,
\* mkdir recursive keeps what is there): any of the names, each once, with
\* any modification times.
StartFolders ==
  { F \in SUBSET [name : StartNames, mtime : 1..MaxMtime, src : {Prior}] :
      \A f \in F, g \in F : f.name = g.name => f = g }

\* main() started with working credentials and a two-entry list, over any
\* content of the download folder.
FolderInit ==
  /\ hasEmail = TRUE
  /\ hasPassword = TRUE
  /\ cookiesFile = "saved"
  /\ profilesFile = [ok |-> TRUE, urls |-> <<UrlBad, UrlA>>]
  /\ folder \in StartFolders
  /\ pending = {}
  /\ run = 1
  /\ pc = "start"
  /\ driver = "none"
  /\ URLs = <<>>
  /\ i = 0
  /\ profileId = Null
  /\ tier = "none"
  /\ primaryFail = "none"
  /\ downloadedFile = Null
  /\ urlMatched = FALSE
  /\ cookieWrites = 0
  /\ reported = 0
  /\ formCheck = "none"
  /\ formPresent = FALSE
  /\ loginResult = "none"
  /\ isLogged = "none"
  /\ authCalls = 0
  /\ listRead = FALSE
  /\ navigated = <<>>
  /\ quitCalls = 0
  /\ claimLog = {}

FolderSpec == FolderInit /\ [][Next]_vars

\* The same with the program's own steps taken eventually (see FairSpec):
\* the while loop of lines 171-196 ends when the 30 s have passed.
FairFolderSpec == FolderSpec /\ WF_vars(Program)

\* ------------------------------------------------- any URL of the list
\* The length of the URLs enumerated in full.
MaxUrlLen == 7

\* The characters the regular expression of line 156 tells apart: the
\* slash, the letters of "/in/", the question mark; "i" and "n" also
\* stand for any other character of an identifier.
UrlChars == {"/", "i", "n", "?"}

\* Two occurrences of "/in/", the first with nothing after it.
UrlTwice == <<"/", "i", "n", "/", "/", "i", "n", "/", "a">>

\* An entry of the list as getProfileURLs returns it (line 344: trimmed,
\* not empty): every string up to MaxUrlLen, and the longer examples.
AnyUrl ==
  (SeqsUpTo(UrlChars, MaxUrlLen) \ {<<>>}) \cup UrlSet \cup {UrlTwice}

\* proccessProfiles is about to be called (line 377) on a list of one
\* entry, any URL: the saved session was accepted (lines 126-128, 140).
ExtractInit ==
  /\ hasEmail = TRUE
  /\ hasPassword = TRUE
  /\ cookiesFile = "saved"
  /\ profilesFile \in {[ok |-> TRUE, urls |-> <<u>>] : u \in AnyUrl}
  /\ folder = {}
  /\ pending = {}
  /\ run = 1
  /\ pc = "mainCheck"
  /\ driver = "open"
  /\ URLs = <<>>
  /\ i = 0
  /\ profileId = Null
  /\ tier = "none"
  /\ primaryFail = "none"
  /\ downloadedFile = Null
  /\ urlMatched = FALSE
  /\ cookieWrites = 0
  /\ reported = 0
  /\ formCheck = "timeout"
  /\ formPresent = FALSE
  /\ loginResult = "none"
  /\ isLogged = "true"
  /\ authCalls = 1
  /\ listRead = FALSE
  /\ navigated = <<>>
  /\ quitCalls = 0
  /\ claimLog = {}

\* Lines 255-270: the list is read, extractProfileId is applied to the
\* entry, and the entry is skipped or navigated to.
ExtractNext == MainAuthenticated \/ SkipEntry \/ Navigate

ExtractSpec == ExtractInit /\ [][ExtractNext]_vars

\* ================================================================ claims

\* The indices k <= n of list whose identifier extractProfileId resolves,
\* in input order.
RECURSIVE ResolvableUpTo(_, _)
ResolvableUpTo(list, n) ==
  IF n = 0 THEN <<>>
  ELSE LET id == extractProfileId(list[n])
       IN IF id.isNull \/ id.str = <<>>
          THEN ResolvableUpTo(list, n - 1)
          ELSE Append(ResolvableUpTo(list, n - 1), n)

\* C1: when the token file is absent or unparsable at session restore,
\* loginWithSavedCookies goes on to loginToLinkedIn: the run never reaches
\* main's login check with an unusable token file and no credential login
\* attempted.
C1_UnusableTokensLeadToLogin ==
  (pc = "mainCheck" /\ cookiesFile # "saved") => loginResult # "none"

\* C2: a target URL is navigated to only after the login-form check ended
\* with no login form present or loginToLinkedIn returned true: with the
\* form present after restore, loginToLinkedIn succeeded before any target.
\* (The claim also asks that the check ended by its timeout; the formula
\* holds the claim to its weaker half only.)
C2_TargetsOnlyOnValidatedSession ==
  navigated # <<>> =>
    /\ formCheck # "none"
    /\ ~formPresent \/ loginResult = "true"

\* C3: whatever fails for a target, every later target is still attempted:
\* at every point of the loop the URLs navigated to are exactly the
\* resolvable entries reached so far, each once and in input order, and
\* when main is done they are all the resolvable entries of the list.
C3_EveryTargetAttempted ==
  listRead =>
    navigated =
      ResolvableUpTo(URLs, IF pc \in {"loop", "done"} THEN i - 1 ELSE i)

\* C3 witness: the second target has been navigated to although the first
\* one failed before any export was requested.
C3_Witness ==
  /\ pc = "overflow"
  /\ i = 2
  /\ navigated = <<1, 2>>
  /\ pending = {}
  /\ folder = {}

\* C4: an invocation of renameDownloadedPdf that finds `${profileId}.pdf`
\* in the folder never replaces that file (so the artifact it claims takes
\* another name), whatever fs.access and the timestamped rename do.
C4_CollisionNeverOverwrites ==
  \A c \in claimLog : c.existed => c.lost = {}

\* C5: over a run no artifact is renamed twice: a file claimed for an
\* earlier target is never renamed again while a later target is processed.
C5_EachArtifactClaimedOnce ==
  \A c \in claimLog, d \in claimLog : c.src = d.src => c = d

\* C6: no two exports are in flight at the same time: at most one requested
\* export is pending, also after waitForDownload timed out.
C6_OneExportInFlight == Cardinality(pending) <= 1

\* C7: once getDriver returned a browser session, driver.quit() is called
\* before main finishes, on every path.
C7_DriverAlwaysQuit ==
  /\ [](pc = "done" /\ driver # "none" => driver = "quit" /\ quitCalls = 1)
  /\ (driver = "open" ~> pc = "done")

\* C7 witness: main has finished a run whose targets were attempted and
\* none claimed, and the browser has been quit.
C7_Witness ==
  /\ pc = "done"
  /\ quitCalls = 1
  /\ Len(navigated) = 2
  /\ claimLog = {}

\* C8: with LINKEDIN_EMAIL or LINKEDIN_PASSWORD absent, no browser session
\* is opened and nothing is navigated to.
C8_NoBrowserWithoutCredentials ==
  (~hasEmail \/ ~hasPassword) => (driver = "none" /\ navigated = <<>>)

\* C9: loginWithSavedCookies is called exactly once per run, before any
\* target; unless it returned true, no target list is read, no URL is
\* navigated to, no export is requested and no file is renamed.
C9_AuthOnceAndGatesTargets ==
  /\ authCalls <= 1
  /\ pc \notin {"start", "loadCookies"} /\ driver # "none" => authCalls = 1
  /\ isLogged # "true" =>
       /\ ~listRead
       /\ navigated = <<>>
       /\ pending = {}
       /\ claimLog = {}

\* C9 witness: the login did not return success and main has ended the run.
C9_Witness ==
  /\ pc = "done"
  /\ isLogged \in {"false", "undefined"}
  /\ quitCalls = 1

\* C10: after two runs on the same single target, the first run having
\* claimed its export as `${profileId}.pdf` and the second having received
\* its export and renamed a file, the first run's file is still there under
\* its name and the second export carries the timestamp suffix.
C10_SecondRunKeepsFirstArtifact ==
  ( /\ run = 2
    /\ pc = "done"
    /\ Len(URLs) = 1
    /\ \E c \in claimLog :
         c.by = Export(1, 1) /\ c.src = Export(1, 1) /\ c.to.sfx = 0
    /\ \E c \in claimLog : c.by = Export(2, 1)
    /\ \E f \in folder : f.src = Export(2, 1) )
  =>
  ( /\ \E f \in folder :
         f.src = Export(1, 1) /\ f.name = newFileName(f.name.stem)
    /\ \E g \in folder :
         /\ g.src = Export(2, 1)
         /\ g.name.stem # ProfileStem
         /\ g.name.sfx # 0 )

\* C11: a run over a target list reports exactly one outcome per entry, in
\* input order: each time the loop is at its head, and when the run has
\* ended, as many outcomes have been printed as entries have been left.
C11_OneOutcomePerEntry ==
  (listRead /\ pc \in {"loop", "done"}) => reported = i - 1

\* C12: for every content of the folder, the file waitForDownload returns
\* and the file renameDownloadedPdf renames are files of the folder whose
\* name ends with .pdf and whose modification time is the greatest among
\* the files ending with .pdf; a file that does not qualify is never
\* returned, renamed or replaced.
C12_ChosenIsMostRecentQualifying ==
  [][ /\ (pc = "wait" /\ pc' = "settle") =>
           \E f \in folder :
             /\ f.name = downloadedFile'.str
             /\ f.name.ext = "pdf"
             /\ \A g \in folder : g.name.ext = "pdf" => g.mtime <= f.mtime
      /\ \A c \in claimLog' \ claimLog :
           \E f \in folder :
             /\ f.name = c.from
             /\ f.name.ext = "pdf"
             /\ \A g \in folder : g.name.ext = "pdf" => g.mtime <= f.mtime
      /\ \A f \in folder : f.name.ext # "pdf" => f \in folder'
    ]_vars

\* C12 witness: the folder holds two PDF files of different age and a
\* younger file that does not qualify; the wait has returned the younger
\* PDF file.
C12_Witness ==
  /\ pc = "settle"
  /\ \E f \in folder, g \in folder, h \in folder :
       /\ f.name = downloadedFile.str
       /\ g.name.ext = "pdf" /\ g.mtime < f.mtime
       /\ h.name.ext = "crdownload" /\ h.mtime > f.mtime

\* C13: the wait for a download and the rename happen only for a target
\* for which a click on a "Save to PDF" element went through; the rename
\* only once the wait has returned a file name and the settle delay has
\* passed; the folder's files are renamed at no other point, so a target
\* left without a click causes no rename.
C13_WaitAndRenameOnlyAfterClick ==
  /\ [](pc \in {"wait", "settle", "rename"} =>
          /\ tier \in {"primary", "alt"}
          /\ \/ Export(run, i) \in pending
             \/ \E f \in folder : f.src = Export(run, i))
  /\ [](pc \in {"settle", "rename"} => ~downloadedFile.isNull)
  /\ [][ /\ (pc' = "wait" /\ pc # "wait") => pc \in {"clickMore", "fallback"}
         /\ (pc' = "rename" /\ pc # "rename") => pc = "settle"
         /\ (claimLog' # claimLog \/ ~(folder \subseteq folder')) =>
              pc = "rename"
       ]_vars

\* C13 witness: the fallback click went through, the wait returned a file
\* name, the delay has passed and the rename is about to run.
C13_Witness ==
  /\ pc = "rename"
  /\ tier = "alt"
  /\ ~downloadedFile.isNull

\* C14: waitForDownload always returns; with no qualifying file in the
\* folder it returns null, and whenever it returns null nothing is renamed
\* for the target, the loop goes to the next entry and the browser stays
\* open (the run is not aborted).
C14_WaitReturnsNullAndRunGoesOn ==
  /\ (pc = "wait") ~> (pc \in {"loop", "settle"})
  /\ [][ /\ ( /\ pc = "wait"
              /\ pc' # "wait"
              /\ \A f \in folder : f.name.ext # "pdf" ) => pc' = "loop"
         /\ (pc = "wait" /\ pc' = "loop") =>
              /\ i' = i + 1
              /\ downloadedFile'.isNull
              /\ folder' = folder
              /\ claimLog' = claimLog
              /\ driver' = "open"
              /\ quitCalls' = 0
       ]_vars

\* C14 witness: the export of the second entry was requested, the folder
\* holds an unfinished download and no PDF file, and the loop has gone past
\* the entry with nothing renamed.
C14_Witness ==
  /\ pc = "loop"
  /\ i = 3
  /\ Export(run, 2) \in pending
  /\ claimLog = {}
  /\ \E f \in folder : f.name.ext = "crdownload"
  /\ \A f \in folder : f.name.ext # "pdf"

\* C15: one invocation of renameDownloadedPdf issues at most one fs.rename:
\* no file is renamed by an invocation whose first rename was rejected.
C15_AtMostOneRenamePerCall ==
  \A c \in claimLog : c.attempts <= 1

\* The positions of url where a segment "/in/<id>" with non-empty <id>
\* begins: "/in/" followed by a character that is neither "/" nor "?".
SegmentStarts(url) ==
  {p \in 1..Len(url) :
     /\ p + 4 <= Len(url)
     /\ SubSeq(url, p, p + 3) = <<"/", "i", "n", "/">>
     /\ url[p + 4] \notin {"/", "?"}}

\* The characters after the "/in/" at position p, up to the next "/" or
\* "?" or the end of url.
IdOfSegment(url, p) ==
  LET stops == {q \in (p + 4)..Len(url) : url[q] \in {"/", "?"}}
      last == IF stops = {} THEN Len(url)
              ELSE (CHOOSE q \in stops : \A r \in stops : q <= r) - 1
  IN SubSeq(url, p + 4, last)

\* C16: for every URL, extractProfileId returns the <id> of the first
\* segment "/in/<id>" with non-empty <id> (the characters up to the next
\* "/" or "?", without a trailing slash), and null when the URL has no
\* such segment: the entry is then skipped, otherwise navigated to under
\* that identifier.
C16_ExtractProfileId ==
  (listRead /\ Len(URLs) = 1) =>
    LET url == URLs[1]
        starts == SegmentStarts(url)
        first == CHOOSE p \in starts : \A q \in starts : p <= q
    IN /\ extractProfileId(url) =
            IF starts = {} THEN Null ELSE Str(IdOfSegment(url, first))
       /\ pc = "overflow" =>
            /\ starts # {}
            /\ profileId = Str(IdOfSegment(url, first))
            /\ profileId.str # <<>>
            /\ \A k \in 1..Len(profileId.str) :
                 profileId.str[k] \notin {"/", "?"}
       /\ (pc = "loop" /\ i = 2) => (navigated = <<>> <=> starts = {})

\* C16 witness: the URL has "/in/" twice, the first with nothing after it,
\* and the entry is processed under the identifier of the second.
C16_Witness ==
  /\ pc = "overflow"
  /\ URLs = <<UrlTwice>>
  /\ profileId = Str(<<"a">>)

\* C17: the file waitForDownload reports for a target came into the
\* folder after this target's click: it is never a file that was already
\* there, such as one renamed for an earlier target (every rename on
\* record was made before the click of the target now waited for).
C17_DetectedFileIsNotAnEarlierClaim ==
  pc = "settle" =>
    \A f \in folder, c \in claimLog :
      f.name = downloadedFile.str => ~(c.to = f.name /\ c.src = f.src)

\* C18 as stated: the fallback locator is tried only when step 4 of the
\* primary path failed, the menu item not found or its click rejected.
C18_FallbackOnlyAfterStep4 ==
  pc = "fallback" => primaryFail \in {"itemNotFound", "clickRejected"}

\* C18 amended: the fallback locator is tried exactly when the primary
\* path failed before its click went through: the click on the overflow
\* button was rejected (step 3), the menu item was not found or its
\* script-level click was rejected (step 4).  When the fallback fails too
\* the target is left with no export requested, no wait and no rename.
C18_FallbackWhenPrimaryFailed ==
  /\ [](pc = "fallback" =>
          /\ primaryFail \in {"menuRejected", "itemNotFound", "clickRejected"}
          /\ tier = "none")
  /\ [][ /\ (pc' = "fallback" /\ pc # "fallback") => pc = "clickMore"
         /\ (pc = "clickMore" /\ pc' # "clickMore") =>
              \/ pc' = "fallback" /\ primaryFail' # "none"
              \/ pc' = "wait" /\ primaryFail' = "none" /\ tier' = "primary"
         /\ (pc = "fallback" /\ pc' # "fallback") =>
              \/ /\ pc' = "wait"
                 /\ tier' = "alt"
                 /\ Export(run, i) \in pending'
              \/ /\ pc' = "loop"
                 /\ i' = i + 1
                 /\ pending' = pending
                 /\ folder' = folder
                 /\ claimLog' = claimLog
       ]_vars

\* C18 witness: the click on the overflow button was rejected and the
\* fallback locator is about to be tried.
C18_Witness ==
  /\ pc = "fallback"
  /\ primaryFail = "menuRejected"
  /\ tier = "none"

\* C19: the token file is written at most once per run and only after the
\* wait for the post-login URL resolved; it changes at no other point; a
\* login that fails before that leaves the file as it was and returns
\* false, and a run whose login returned false processes no target and
\* ends with the browser closed.
C19_TokenFileWrittenOnceAfterLogin ==
  /\ [](/\ cookieWrites <= 1
        /\ cookieWrites = 1 => urlMatched
        /\ loginResult = "false" =>
             /\ ~listRead
             /\ navigated = <<>>
             /\ pc \in {"mainCheck", "done"}
             /\ pc = "done" => quitCalls = 1)
  /\ [][ /\ cookiesFile' # cookiesFile =>
              /\ pc = "login"
              /\ urlMatched'
              /\ cookieWrites' = cookieWrites + 1
         /\ (pc = "login" /\ pc' # "login" /\ ~urlMatched') =>
              /\ cookiesFile' = cookiesFile
              /\ cookieWrites' = cookieWrites
              /\ loginResult' = "false"
       ]_vars

\* C19 witness: the login failed before the post-login URL matched; the
\* token file was not written and the run has ended with no target read.
C19_Witness ==
  /\ pc = "done"
  /\ loginResult = "false"
  /\ ~urlMatched
  /\ cookieWrites = 0
  /\ ~listRead

\* C20: for each target at most one export click goes through: while the
\* fallback locator is about to be tried no click has gone through for the
\* target and it has requested no export, and a primary click that went
\* through is followed by the wait alone, never by the fallback.
C20_OneExportClickPerTarget ==
  /\ [](pc = "fallback" =>
          /\ tier = "none"
          /\ Export(run, i) \notin pending
          /\ \A f \in folder : f.src # Export(run, i))
  /\ [][ /\ tier = "primary" => pc' # "fallback"
         /\ (tier # "none" /\ tier' # tier) => tier' = "none"
         /\ (tier # "none" /\ i' = i) => pending' \subseteq pending
       ]_vars

\* C20 witness: the primary click went through, the wait returned null
\* and the loop is at the next entry with the one export still pending.
C20_Witness ==
  /\ pc = "loop"
  /\ i = 2
  /\ tier = "none"
  /\ pending = {Export(run, 1)}
  /\ reported = 1
  /\ folder = {}
  /\ navigated = <<1>>

====
